---- MODULE Spec2Model ----
(***************************************************************************)
(* Model of ml3d/datasets/argoverse.py: the Argoverse dataset catalog      *)
(* (class Argoverse), its per-split view (class ArgoverseSplit) and the    *)
(* decoded bounding box (class Object3d).                                  *)
(*                                                                         *)
(* Python values are represented as follows.                               *)
(*   str          a sequence of one-character strings                      *)
(*   lidar_path   [kind, chars, items]: kind "str" holds the characters of *)
(*                one path, kind "list" holds a list of paths in items     *)
(*   bbox entry   [kind, boxes]: kind "list" is a list of raw boxes, kind  *)
(*                "dict" is one raw box standing where a list is expected  *)
(*   index        [kind, records]: kind "dict" is the {} an index starts   *)
(*                as, kind "list" is the list unpickled from a file        *)
(*   number       an integer, with the box's field num telling whether the *)
(*                coordinates are Python numbers ("py") or numpy ("np")    *)
(***************************************************************************)
EXTENDS Integers, Sequences, FiniteSets, TLC

VARIABLES
    index_files,     \* info_path directory: split -> [present, error, infos]
    constructed,     \* TRUE once Argoverse.__init__ has returned a catalog
    label_to_names,  \* Argoverse.label_to_names
    train_info,      \* Argoverse.train_info
    test_info,       \* Argoverse.test_info
    val_info,        \* Argoverse.val_info
    views,           \* the ArgoverseSplit objects built so far
    result           \* outcome of the last call

vars == <<index_files, constructed, label_to_names, train_info, test_info,
          val_info, views, result>>

----------------------------------------------------------------------------
(* Bounds of the model *)

MaxViews == 2     \* ArgoverseSplit objects alive at once
MaxIdx == 2       \* indices passed to get_data / get_attr are -MaxIdx-1 .. MaxIdx
MaxNumPc == 2     \* largest num_pc field of one info record

----------------------------------------------------------------------------
(* Generic helpers *)

None == "None"

Abs(x) == IF x < 0 THEN -x ELSE x

RECURSIVE Gcd(_, _)
Gcd(a, b) == IF b = 0 THEN a ELSE Gcd(b, a % b)

Last(s) == s[Len(s)]

\* Python list indexing s[idx]: negative indices count from the end, and an
\* index outside -len..len-1 raises IndexError.
InRange(s, idx) == idx >= -Len(s) /\ idx < Len(s)
PyIndex(s, idx) == IF idx < 0 THEN s[Len(s) + idx + 1] ELSE s[idx + 1]

\* Indexing that wraps around the list (idx % len) instead of raising.
PyGet_circular(s, idx) ==
    IF Len(s) = 0 THEN [status |-> "IndexError", item |-> <<>>]
    ELSE [status |-> "ok", item |-> <<s[(idx % Len(s)) + 1]>>]

PyGet(s, idx) ==
    IF InRange(s, idx) THEN [status |-> "ok", item |-> <<PyIndex(s, idx)>>]
    ELSE [status |-> "IndexError", item |-> <<>>]

\* Iterating a lidar_path value, as list.__iadd__ does: a str yields its
\* characters one by one, a list yields its items.
Iter(lp) ==
    IF lp.kind = "str"
    THEN [i \in 1..Len(lp.chars) |-> <<lp.chars[i]>>]
    ELSE lp.items

----------------------------------------------------------------------------
(* Label tables *)

get_label_to_names ==
    [id \in 0..15 |->
        CASE id = 0 -> "ignore"
          [] id = 1 -> "VEHICLE"
          [] id = 2 -> "PEDESTRIAN"
          [] id = 3 -> "ON_ROAD_OBSTACLE"
          [] id = 4 -> "LARGE_VEHICLE"
          [] id = 5 -> "BICYCLE"
          [] id = 6 -> "BICYCLIST"
          [] id = 7 -> "BUS"
          [] id = 8 -> "OTHER_MOVER"
          [] id = 9 -> "TRAILER"
          [] id = 10 -> "MOTORCYCLIST"
          [] id = 11 -> "MOPED"
          [] id = 12 -> "MOTORCYCLE"
          [] id = 13 -> "STROLLER"
          [] id = 14 -> "EMERGENCY_VEHICLE"
          [] id = 15 -> "ANIMAL"]

type_to_id ==
    [ignore |-> 0, VEHICLE |-> 1, PEDESTRIAN |-> 2, ON_ROAD_OBSTACLE |-> 3,
     LARGE_VEHICLE |-> 4, BICYCLE |-> 5, BICYCLIST |-> 6, BUS |-> 7,
     OTHER_MOVER |-> 8, TRAILER |-> 9, MOTORCYCLIST |-> 10, MOPED |-> 11,
     MOTORCYCLE |-> 12, STROLLER |-> 13, EMERGENCY_VEHICLE |-> 14,
     ANIMAL |-> 15]

\* The name table with MOPED and MOTORCYCLE out of step with the id table.
cls_type_to_id_unsynced(cls_type) ==
    IF cls_type \notin DOMAIN type_to_id THEN 0
    ELSE IF cls_type = "MOPED" THEN type_to_id["MOTORCYCLE"]
    ELSE IF cls_type = "MOTORCYCLE" THEN type_to_id["MOPED"]
    ELSE type_to_id[cls_type]

cls_type_to_id(cls_type) ==
    IF cls_type \notin DOMAIN type_to_id THEN 0 ELSE type_to_id[cls_type]

----------------------------------------------------------------------------
(* Lidar files on disk, as seen by Argoverse.read_lidar *)

PathA == <<"d", "/", "s", ".", "b">>     \* "d/s.b", a readable point cloud
PathB == <<"m", ".", "p">>               \* "m.p", not on disk

LidarFiles == {PathA}                    \* readable point-cloud files
LidarDirs == {<<"d">>, <<"/">>, <<".">>} \* paths that exist but hold no points

\* assert Path(path).exists(), then the pyntcloud reader; the array returned
\* has the columns x, y, z of the file's points.
read_lidar(path) ==
    IF path \notin LidarFiles \cup LidarDirs
    THEN [status |-> "AssertionError", points |-> <<>>]
    ELSE IF path \in LidarDirs
    THEN [status |-> "FileFormatError", points |-> <<>>]
    ELSE [status |-> "ok", points |-> <<[file |-> path, columns |-> <<"x", "y", "z">>]>>]

----------------------------------------------------------------------------
(* Heading angle and Object3d *)

\* (a / b) as Python or numpy computes it.  The quotient is kept as a
\* fraction in lowest terms with a positive denominator; numpy's +inf, -inf
\* and nan are 1/0, -1/0 and 0/0.
Divide(num, a, b) ==
    IF b = 0
    THEN IF num = "py"
         THEN [status |-> "ZeroDivisionError", n |-> 0, d |-> 0]
         ELSE [status |-> "ok", n |-> (IF a > 0 THEN 1 ELSE IF a < 0 THEN -1 ELSE 0), d |-> 0]
    ELSE LET g == Gcd(Abs(a), Abs(b))
             sgn == IF b < 0 THEN -1 ELSE 1
         IN [status |-> "ok", n |-> (sgn * a) \div g, d |-> (sgn * b) \div g]

IsNaN(q) == q.n = 0 /\ q.d = 0

\* np.arctan of a quotient; arctan is one-to-one, so the angle is named by
\* its argument (arctan(+-inf) = +-pi/2, arctan(nan) = nan).
arctan(q) == [fn |-> "arctan", n |-> q.n, d |-> q.d]
cos(ry) == [fn |-> "cos", of |-> ry]
sin(ry) == [fn |-> "sin", of |-> ry]

\* np.linalg.norm(center)
norm(v) == [sqrt |-> v[1] * v[1] + v[2] * v[2] + v[3] * v[3]]

Object3d(center, front, up, left, size, name, box) ==
    [center |-> center, front |-> front, up |-> up, left |-> left,
     size |-> size, label_class |-> cls_type_to_id(name), confidence |-> 1,
     name |-> name,
     cls_id |-> cls_type_to_id(name),
     dis_to_cam |-> norm(center),
     occlusion |-> box.occlusion,
     quaternion |-> box.quaternion,
     coords_3d |-> box.coord3d,
     coords_2d |-> box.coord2d]

\* One iteration of the loop of read_label.
DecodeBox(box) ==
    LET box2d == box.coord2d
        q == Divide(box.num, box2d[1][1] - box2d[2][1], box2d[1][2] - box2d[2][2])
        ry == arctan(q)
        front == [x |-> cos(ry), y |-> sin(ry), z |-> 0]
        up == [x |-> 0, y |-> 0, z |-> 1]
        left == [x |-> sin(ry), y |-> cos(ry), z |-> 0]
    IN [status |-> q.status,
        obj |-> Object3d(box.center, front, up, left,
                         <<box.w, box.h, box.l>>, box.label_class, box)]

RECURSIVE ReadLabelLoop(_, _)
ReadLabelLoop(boxes, objects) ==
    IF boxes = <<>>
    THEN [status |-> "ok", objects |-> objects]
    ELSE LET r == DecodeBox(Head(boxes))
         IN IF r.status # "ok"
            THEN [status |-> r.status, objects |-> <<>>]
            ELSE ReadLabelLoop(Tail(boxes), Append(objects, r.obj))

\* Iterating a dict yields its keys, and indexing a key (a str) with
\* 'label_class' raises TypeError.
read_label(bboxes) ==
    IF bboxes.kind = "dict"
    THEN [status |-> "TypeError", objects |-> <<>>]
    ELSE ReadLabelLoop(bboxes.boxes, <<>>)

----------------------------------------------------------------------------
(* File name stem, Path(pc_path).name.split('.')[0] *)

RECURSIVE SplitOn(_, _, _, _)
\* str.split(sep) over the characters chars; cur is the piece being read.
SplitOn(chars, sep, cur, acc) ==
    IF chars = <<>> THEN Append(acc, cur)
    ELSE IF Head(chars) = sep THEN SplitOn(Tail(chars), sep, <<>>, Append(acc, cur))
    ELSE SplitOn(Tail(chars), sep, Append(cur, Head(chars)), acc)

\* pathlib drops empty and "." components; the name is the last one left.
PathName(chars) ==
    LET parts == SelectSeq(SplitOn(chars, "/", <<>>, <<>>),
                           LAMBDA c : c # <<>> /\ c # <<".">>)
    IN IF parts = <<>> THEN <<>> ELSE Last(parts)

Stem(chars) == Head(SplitOn(PathName(chars), ".", <<>>, <<>>))

----------------------------------------------------------------------------
(* Inputs: raw boxes, info records, index files, split names, indices *)

MkBox(name, occlusion, num, c0, c1) ==
    [label_class |-> name, center |-> <<1, 2, 2>>, w |-> 2, h |-> 1, l |-> 4,
     coord2d |-> <<c0, c1>>, num |-> num, occlusion |-> occlusion,
     quaternion |-> <<1, 0, 0, 0>>, coord3d |-> <<<<0, 0, 0>>, <<1, 1, 1>>>>]

BoxCar == MkBox("VEHICLE", 0, "py", <<0, 0>>, <<1, 1>>)
BoxDog == MkBox("ANIMAL", 1, "np", <<1, 0>>, <<0, 2>>)
BoxOdd == MkBox("garbage", 2, "py", <<2, 1>>, <<0, 0>>)
BoxFlatPy == MkBox("BUS", 0, "py", <<0, 0>>, <<1, 0>>)
BoxFlatNp == MkBox("BUS", 1, "np", <<0, 0>>, <<1, 0>>)
BoxSameNp == MkBox("MOPED", 0, "np", <<1, 1>>, <<1, 1>>)

BoxList(boxes) == [kind |-> "list", boxes |-> boxes]
BoxDict(box) == [kind |-> "dict", boxes |-> <<box>>]
PathList(items) == [kind |-> "list", chars |-> <<>>, items |-> items]
PathStr(chars) == [kind |-> "str", chars |-> chars, items |-> <<>>]

\* The (lidar_path, bbox) pairs an info record may hold.
Shapes ==
    { [lidar_path |-> PathList(<<PathA>>),
       bbox |-> <<BoxList(<<BoxCar, BoxDog>>)>>],
      [lidar_path |-> PathList(<<PathA, PathA>>),
       bbox |-> <<BoxList(<<BoxCar, BoxFlatPy, BoxDog>>), BoxList(<<BoxFlatNp, BoxSameNp>>)>>],
      [lidar_path |-> PathList(<<PathB>>), bbox |-> <<>>],
      [lidar_path |-> PathStr(PathA), bbox |-> <<BoxDict(BoxCar), BoxDict(BoxDog)>>] }

Records ==
    { [num_pc |-> n, lidar_path |-> s.lidar_path, bbox |-> s.bbox] :
        n \in 0..MaxNumPc, s \in Shapes }

SecondRecords ==
    { [num_pc |-> 1, lidar_path |-> PathList(<<PathB>>), bbox |-> <<BoxList(<<BoxDog>>)>>] }

TrainFiles ==
    {<<>>} \cup {<<r>> : r \in Records}
           \cup {<<r, r2>> : r \in {x \in Records : x.num_pc = MaxNumPc},
                              r2 \in SecondRecords}

ValFile == <<[num_pc |-> 1, lidar_path |-> PathList(<<PathA>>),
              bbox |-> <<BoxList(<<BoxOdd>>)>>]>>

TestFile == <<[num_pc |-> 2, lidar_path |-> PathList(<<PathB, PathA>>),
               bbox |-> <<BoxList(<<>>), BoxList(<<BoxCar>>)>>]>>

\* A file of the info_path directory: absent, present and holding a pickled
\* list of records, or present but failing in open / pickle.load with error
\* (an empty file: EOFError; not a pickle: UnpicklingError; a directory of
\* that name: IsADirectoryError).
Absent == [present |-> FALSE, error |-> "", infos |-> <<>>]
Present(infos) == [present |-> TRUE, error |-> "", infos |-> infos]
Unloadable(error) == [present |-> TRUE, error |-> error, infos |-> <<>>]

LoadErrors == {"EOFError", "UnpicklingError", "IsADirectoryError"}

\* The info_path directories: every train file beside both other files,
\* every combination of present and absent files, and directories in which
\* one or two of the files cannot be loaded.
IndexDirs ==
    { [train |-> Present(f), val |-> Present(ValFile), test |-> Present(TestFile)] :
        f \in TrainFiles }
    \cup [train : {Absent, Present(<<Head(ValFile), Head(TestFile)>>)},
          val : {Absent, Present(ValFile)},
          test : {Absent, Present(TestFile)}]
    \cup { [train |-> Unloadable(e), val |-> v, test |-> Present(TestFile)] :
             e \in LoadErrors, v \in {Absent, Present(ValFile)} }
    \cup { [train |-> t, val |-> Unloadable(e), test |-> Absent] :
             e \in LoadErrors, t \in {Absent, Present(ValFile)} }
    \cup { [train |-> Absent, val |-> v, test |-> Unloadable(e)] :
             e \in LoadErrors, v \in {Absent, Present(ValFile)} }
    \cup { [train |-> Unloadable("EOFError"), val |-> Unloadable("UnpicklingError"),
            test |-> Absent],
           [train |-> Absent, val |-> Unloadable("IsADirectoryError"),
            test |-> Unloadable("EOFError")] }

\* Names passed to get_split_list, and the ones passed to get_split.
SplitNames == {"train", "training", "val", "validation", "test", "testing",
               "Train", "all"}
ViewSplits == {"train", "val", "testing", "Train", "all"}

Indices == (-MaxIdx - 1)..MaxIdx

NameInputs == {get_label_to_names[id] : id \in 0..15}
                 \cup {"unknown-garbage", "vehicle", ""}

NoResult == [op |-> "none", split |-> "", view |-> 0, idx |-> 0, name |-> "",
             status |-> "ok", value |-> None]

----------------------------------------------------------------------------
(* Operations of Argoverse and ArgoverseSplit *)

\* The {} each index is set to before the three os.path.exists tests, and
\* the list pickle.load returns.
EmptyDict == [kind |-> "dict", records |-> <<>>]
PyListOf(infos) == [kind |-> "list", records |-> infos]

\* One "if os.path.exists(...): self.x_info = pickle.load(open(...))": the
\* index keeps its {} when the file is absent, and open / pickle.load raise
\* when the file exists but cannot be loaded.
LoadInfo(file) ==
    IF ~file.present THEN [status |-> "ok", index |-> EmptyDict]
    ELSE IF file.error # "" THEN [status |-> file.error, index |-> EmptyDict]
    ELSE [status |-> "ok", index |-> PyListOf(file.infos)]

\* The three loads of Argoverse.__init__, in the order train, val, test; the
\* first one that raises ends the construction.
LoadAll(files) ==
    LET tr == LoadInfo(files.train)
        va == LoadInfo(files.val)
        te == LoadInfo(files.test)
    IN [status |-> IF tr.status # "ok" THEN tr.status
                   ELSE IF va.status # "ok" THEN va.status
                   ELSE te.status,
        train_info |-> tr.index, val_info |-> va.index, test_info |-> te.index]

\* get_split_list falling back to the train index for an unknown name.
get_split_list_default(split) ==
    IF split \in {"test", "testing"}
    THEN [status |-> "ok", infos |-> test_info]
    ELSE IF split \in {"val", "validation"}
    THEN [status |-> "ok", infos |-> val_info]
    ELSE [status |-> "ok", infos |-> train_info]

\* get_split_list with the test and val branches exchanged.
get_split_list_swapped(split) ==
    IF split \in {"train", "training"}
    THEN [status |-> "ok", infos |-> train_info]
    ELSE IF split \in {"test", "testing"}
    THEN [status |-> "ok", infos |-> val_info]
    ELSE IF split \in {"val", "validation"}
    THEN [status |-> "ok", infos |-> test_info]
    ELSE [status |-> "ValueError", infos |-> EmptyDict]

\* Argoverse.get_split_list
get_split_list(split) ==
    IF split \in {"train", "training"}
    THEN [status |-> "ok", infos |-> train_info]
    ELSE IF split \in {"test", "testing"}
    THEN [status |-> "ok", infos |-> test_info]
    ELSE IF split \in {"val", "validation"}
    THEN [status |-> "ok", infos |-> val_info]
    ELSE [status |-> "ValueError", infos |-> EmptyDict]

\* The loop putting each record's entries in front of the earlier ones.
RECURSIVE Flatten_newest_first(_, _)
Flatten_newest_first(infos, acc) ==
    IF infos = <<>> THEN acc
    ELSE LET info == Head(infos)
         IN Flatten_newest_first(Tail(infos),
                    [num_pc |-> acc.num_pc + info.num_pc,
                     path_list |-> Iter(info.lidar_path) \o acc.path_list,
                     bboxes |-> info.bbox \o acc.bboxes])

\* The loop of ArgoverseSplit.__init__ over the info records.
RECURSIVE Flatten(_, _)
Flatten(infos, acc) ==
    IF infos = <<>> THEN acc
    ELSE LET info == Head(infos)
         IN Flatten(Tail(infos),
                    [num_pc |-> acc.num_pc + info.num_pc,
                     path_list |-> acc.path_list \o Iter(info.lidar_path),
                     bboxes |-> acc.bboxes \o info.bbox])

\* ArgoverseSplit.__init__
ArgoverseSplit(split) ==
    LET got == get_split_list(split)
        flat == Flatten(got.infos.records, [num_pc |-> 0, path_list |-> <<>>, bboxes |-> <<>>])
    IN IF got.status # "ok"
       THEN [status |-> got.status, view |-> <<>>, logged |-> None]
       ELSE [status |-> "ok",
             view |-> <<[split |-> split, num_pc |-> flat.num_pc,
                         path_list |-> flat.path_list, bboxes |-> flat.bboxes]>>,
             logged |-> [found |-> flat.num_pc, split |-> split]]

\* __len__ counting the lidar paths instead.
SplitLen_paths(self) == Len(self.path_list)

\* ArgoverseSplit.__len__
SplitLen(self) == self.num_pc

\* ArgoverseSplit.get_data
get_data(self, idx) ==
    LET lidar_path == PyGet(self.path_list, idx)
        bboxes == PyGet(self.bboxes, idx)
    IN IF lidar_path.status # "ok" THEN [status |-> lidar_path.status, value |-> None]
       ELSE IF bboxes.status # "ok" THEN [status |-> bboxes.status, value |-> None]
       ELSE LET pc == read_lidar(lidar_path.item[1])
                label == read_label(bboxes.item[1])
            IN IF pc.status # "ok" THEN [status |-> pc.status, value |-> None]
               ELSE IF label.status # "ok" THEN [status |-> label.status, value |-> None]
               ELSE [status |-> "ok",
                     value |-> [point |-> pc.points[1], feat |-> None, calib |-> None,
                                bounding_boxes |-> label.objects]]

\* ArgoverseSplit.get_attr
get_attr(self, idx) ==
    LET pc_path == PyGet(self.path_list, idx)
    IN IF pc_path.status # "ok" THEN [status |-> pc_path.status, value |-> None]
       ELSE [status |-> "ok",
             value |-> [name |-> Stem(pc_path.item[1]), path |-> pc_path.item[1],
                        split |-> self.split]]

----------------------------------------------------------------------------
(* State machine *)

Init ==
    /\ index_files \in IndexDirs
    /\ constructed = FALSE
    /\ label_to_names = <<>>
    /\ train_info = EmptyDict
    /\ test_info = EmptyDict
    /\ val_info = EmptyDict
    /\ views = <<>>
    /\ result = NoResult

\* __init__ reading infos_train.pkl again where infos_val.pkl is meant.
Construct_crosswired ==
    /\ ~constructed
    /\ LET r == LoadAll([index_files EXCEPT !.val = index_files.train])
       IN IF r.status = "ok"
          THEN /\ constructed' = TRUE
               /\ label_to_names' = get_label_to_names
               /\ train_info' = r.train_info
               /\ val_info' = r.val_info
               /\ test_info' = r.test_info
               /\ result' = [NoResult EXCEPT !.op = "construct"]
          ELSE /\ result' = [NoResult EXCEPT !.op = "construct", !.status = r.status]
               /\ UNCHANGED <<constructed, label_to_names, train_info,
                              val_info, test_info>>
    /\ UNCHANGED <<index_files, views>>

\* Argoverse.__init__: when a load raises, the exception leaves the
\* constructor and there is no catalog.
Construct ==
    /\ ~constructed
    /\ LET r == LoadAll(index_files)
       IN IF r.status = "ok"
          THEN /\ constructed' = TRUE
               /\ label_to_names' = get_label_to_names
               /\ train_info' = r.train_info
               /\ val_info' = r.val_info
               /\ test_info' = r.test_info
               /\ result' = [NoResult EXCEPT !.op = "construct"]
          ELSE /\ result' = [NoResult EXCEPT !.op = "construct", !.status = r.status]
               /\ UNCHANGED <<constructed, label_to_names, train_info,
                              val_info, test_info>>
    /\ UNCHANGED <<index_files, views>>

\* Argoverse.get_split_list(split)
GetSplitList(split) ==
    /\ constructed
    /\ LET r == get_split_list(split)
       IN result' = [NoResult EXCEPT !.op = "get_split_list", !.split = split,
                        !.status = r.status,
                        !.value = IF r.status = "ok" THEN r.infos ELSE None]
    /\ UNCHANGED <<index_files, constructed, label_to_names, train_info,
                   test_info, val_info, views>>

\* Argoverse.get_split(split)
GetSplit(split) ==
    /\ constructed
    /\ LET r == ArgoverseSplit(split)
       IN /\ r.status = "ok" => Len(views) < MaxViews
          /\ views' = views \o r.view
          /\ result' = [NoResult EXCEPT !.op = "get_split", !.split = split,
                           !.view = IF r.status = "ok" THEN Len(views) + 1 ELSE 0,
                           !.status = r.status, !.value = r.logged]
    /\ UNCHANGED <<index_files, constructed, label_to_names, train_info,
                   test_info, val_info>>

\* len(view)
GetLen(v) ==
    /\ result' = [NoResult EXCEPT !.op = "len", !.view = v,
                     !.value = SplitLen(views[v])]
    /\ UNCHANGED <<index_files, constructed, label_to_names, train_info,
                   test_info, val_info, views>>

\* get_data taking the entry out of the path list (pop) instead of reading it.
GetData_consuming(v, idx) ==
    /\ LET r == get_data(views[v], idx)
       IN result' = [NoResult EXCEPT !.op = "get_data", !.view = v, !.idx = idx,
                        !.status = r.status, !.value = r.value]
    /\ views' = [views EXCEPT ![v].path_list =
                     IF InRange(@, idx)
                     THEN LET i == IF idx < 0 THEN Len(@) + idx + 1 ELSE idx + 1
                          IN SubSeq(@, 1, i - 1) \o SubSeq(@, i + 1, Len(@))
                     ELSE @]
    /\ UNCHANGED <<index_files, constructed, label_to_names, train_info,
                   test_info, val_info>>

\* view.get_data(idx)
GetData(v, idx) ==
    /\ LET r == get_data(views[v], idx)
       IN result' = [NoResult EXCEPT !.op = "get_data", !.view = v, !.idx = idx,
                        !.status = r.status, !.value = r.value]
    /\ UNCHANGED <<index_files, constructed, label_to_names, train_info,
                   test_info, val_info, views>>

\* view.get_attr(idx)
GetAttr(v, idx) ==
    /\ LET r == get_attr(views[v], idx)
       IN result' = [NoResult EXCEPT !.op = "get_attr", !.view = v, !.idx = idx,
                        !.status = r.status, !.value = r.value]
    /\ UNCHANGED <<index_files, constructed, label_to_names, train_info,
                   test_info, val_info, views>>

\* Object3d.cls_type_to_id(name)
ClsTypeToId(name) ==
    /\ result' = [NoResult EXCEPT !.op = "cls_type_to_id", !.name = name,
                     !.value = cls_type_to_id(name)]
    /\ UNCHANGED <<index_files, constructed, label_to_names, train_info,
                   test_info, val_info, views>>

Next ==
    \/ Construct
    \/ \E split \in SplitNames : GetSplitList(split)
    \/ \E split \in ViewSplits : GetSplit(split)
    \/ \E v \in DOMAIN views : GetLen(v)
    \/ \E v \in DOMAIN views, idx \in Indices : GetData(v, idx)
    \/ \E v \in DOMAIN views, idx \in Indices : GetAttr(v, idx)

Spec == Init /\ [][Next]_vars

\* The label lookups, over index directories whose boxes carry table names
\* and unknown names.
InitLabels ==
    /\ Init
    /\ index_files.train.present
    /\ Len(index_files.train.infos) = 2
    /\ \A c \in {"train", "val", "test"} : index_files[c].error = ""

NextLabels ==
    \/ Next
    \/ \E name \in NameInputs : ClsTypeToId(name)

SpecLabels == InitLabels /\ [][NextLabels]_vars

----------------------------------------------------------------------------
(* Vocabulary of the properties *)

ValidSplits == {"train", "training", "val", "validation", "test", "testing"}

Canon(split) ==
    IF split \in {"train", "training"} THEN "train"
    ELSE IF split \in {"val", "validation"} THEN "val"
    ELSE "test"

\* What the info_path directory holds for a canonical split.
StoredIndex(c) ==
    IF index_files[c].present THEN PyListOf(index_files[c].infos) ELSE EmptyDict

RecordsOf(view) == StoredIndex(Canon(view.split)).records

RECURSIVE SumNumPc(_)
SumNumPc(infos) ==
    IF infos = <<>> THEN 0 ELSE Head(infos).num_pc + SumNumPc(Tail(infos))

\* Entries one record contributes to the path list and to the box lists.
PathCount(r) ==
    IF r.lidar_path.kind = "list" THEN Len(r.lidar_path.items)
    ELSE Len(r.lidar_path.chars)
PathAt(r, j) ==
    IF r.lidar_path.kind = "list" THEN r.lidar_path.items[j]
    ELSE <<r.lidar_path.chars[j]>>

RECURSIVE PathsBefore(_, _)
PathsBefore(infos, k) ==
    IF k <= 1 THEN 0 ELSE PathsBefore(infos, k - 1) + PathCount(infos[k - 1])

RECURSIVE BoxesBefore(_, _)
BoxesBefore(infos, k) ==
    IF k <= 1 THEN 0 ELSE BoxesBefore(infos, k - 1) + Len(infos[k - 1].bbox)

\* The view and index the last get_data / get_attr / len call was made on.
CalledView == views[result.view]

----------------------------------------------------------------------------
(* C1 *)

\* C1 (as stated): len(view) is N, the number of scene records of the split,
\* which is also the number of entries of the flattened lidar-path list, and
\* not the sum of the records' num_pc fields.
C1_LengthIsSceneCount ==
    result.op = "len" =>
        /\ result.value = Len(RecordsOf(CalledView))
        /\ result.value = Len(CalledView.path_list)

\* C1 (amended): len(view) is the sum of the num_pc fields of the split's
\* records, the same total the "Found ... pointclouds" log line reports,
\* whatever the number of records or of lidar paths.
C1_LengthIsNumPcTotal ==
    /\ result.op = "len" =>
           result.value = SumNumPc(RecordsOf(CalledView))
    /\ (result.op = "get_split" /\ result.status = "ok") =>
           /\ result.value.found = SumNumPc(StoredIndex(Canon(result.split)).records)
           /\ SplitLen(views[result.view]) = result.value.found

C1_Witness ==
    /\ result.op = "len"
    /\ Len(RecordsOf(CalledView)) > 0
    /\ result.value # Len(RecordsOf(CalledView))
    /\ result.value # Len(CalledView.path_list)

----------------------------------------------------------------------------
(* C2 *)

\* C2 (as stated): get_data(i) with i < 0 or i >= len(view) fails with an
\* index error and returns no sample.  The formula asks only that the call
\* fails, so what violates it is a sample returned for such an index.
C2_OutsideLengthFails ==
    (result.op = "get_data"
     /\ (result.idx < 0 \/ result.idx >= SplitLen(CalledView))) =>
        /\ result.status # "ok"
        /\ result.value = None

\* C2 (amended): with n the length of the flattened lidar-path list, m the
\* length of the flattened box-list list and k the smaller of the two,
\* get_data(i) fails with an index error and returns no sample exactly when
\* i >= k or i < -k; an index -k <= i < 0 is not out of range: it counts from
\* the end of each list, and a sample returned for it holds the points of
\* lidar path n + i and one object per box of box list m + i.
C2_OutsidePathListFails ==
    result.op = "get_data" =>
        LET n == Len(CalledView.path_list)
            m == Len(CalledView.bboxes)
            k == IF n < m THEN n ELSE m
        IN /\ (result.idx >= k \/ result.idx < -k) =>
                  (result.status = "IndexError" /\ result.value = None)
           /\ (result.idx < k /\ result.idx >= -k) =>
                  result.status # "IndexError"
           /\ (result.idx < 0 /\ result.status = "ok") =>
                  /\ result.value.point.file = CalledView.path_list[n + result.idx + 1]
                  /\ Len(result.value.bounding_boxes) =
                         Len(CalledView.bboxes[m + result.idx + 1].boxes)

C2_Witness ==
    /\ result.op = "get_data"
    /\ Len(CalledView.path_list) = 2
    /\ Len(CalledView.bboxes) = 2
    /\ result.idx = -1
    /\ result.status = "ok"
    /\ result.value.point.file = CalledView.path_list[2]
    /\ Len(result.value.bounding_boxes) = Len(CalledView.bboxes[2].boxes)

----------------------------------------------------------------------------
(* C3 *)

\* C3: get_split_list on a name outside the six split names fails with the
\* invalid-split error; get_split on such a name fails the same way and
\* builds no view (every view there is names a valid split); the three
\* indices of the catalog still hold what was loaded.
C3_InvalidSplitFails ==
    /\ (result.op \in {"get_split_list", "get_split"}
        /\ result.split \notin ValidSplits) =>
           /\ result.status = "ValueError"
           /\ result.value = None
           /\ result.view = 0
    /\ \A v \in DOMAIN views : views[v].split \in ValidSplits
    /\ constructed =>
           /\ train_info = StoredIndex("train")
           /\ val_info = StoredIndex("val")
           /\ test_info = StoredIndex("test")

C3_Witness ==
    /\ result.op = "get_split"
    /\ result.split \notin ValidSplits
    /\ result.status = "ValueError"
    /\ Len(views) = 1
    /\ train_info.records # <<>>

----------------------------------------------------------------------------
(* C4 *)

\* C4: get_split_list returns the train index for "train" and "training",
\* the val index for "val" and "validation", the test index for "test" and
\* "testing".
C4_AliasesShareIndex ==
    (result.op = "get_split_list" /\ result.split \in ValidSplits) =>
        /\ result.status = "ok"
        /\ result.split \in {"train", "training"} => result.value = train_info
        /\ result.split \in {"val", "validation"} => result.value = val_info
        /\ result.split \in {"test", "testing"} => result.value = test_info

C4_Witness ==
    /\ result.op = "get_split_list"
    /\ result.split = "validation"
    /\ result.value = val_info
    /\ val_info # test_info
    /\ val_info # train_info
    /\ test_info # train_info

----------------------------------------------------------------------------
(* C5 *)

\* The index Argoverse holds for split c once constructed.
IndexOf(c) ==
    CASE c = "train" -> train_info
      [] c = "val" -> val_info
      [] c = "test" -> test_info

\* C5: an absent index file raises no error at construction: construction
\* fails only with the error of a file that is present (the first one, in
\* the order train, val, test, that cannot be loaded), and with the files
\* of all three splits absent or loadable it succeeds.  The index of a split
\* whose file is absent is empty, get_split on that split succeeds, and the
\* view has length 0 and no entries.  The index of every split is decided
\* by its own file alone: empty when the file is absent, the file's list
\* when it is present, whatever the other two files are.
C5_AbsentFileIsEmptySplit ==
    /\ result.op = "construct" =>
           /\ (\A c \in {"train", "val", "test"} :
                   ~index_files[c].present \/ index_files[c].error = "") =>
                  (result.status = "ok" /\ constructed)
           /\ result.status # "ok" =>
                  /\ ~constructed
                  /\ \E c \in {"train", "val", "test"} :
                        /\ index_files[c].present
                        /\ index_files[c].error = result.status
                  /\ result.status =
                         IF index_files.train.error # "" THEN index_files.train.error
                         ELSE IF index_files.val.error # "" THEN index_files.val.error
                         ELSE index_files.test.error
    /\ constructed =>
           \A c \in {"train", "val", "test"} :
               IF index_files[c].present
               THEN IndexOf(c) = [kind |-> "list", records |-> index_files[c].infos]
               ELSE /\ IndexOf(c).records = <<>>
                    /\ IndexOf(c).kind = "dict"
    /\ (result.op = "get_split" /\ result.split \in ValidSplits
        /\ ~index_files[Canon(result.split)].present) =>
           /\ result.status = "ok"
           /\ SplitLen(views[result.view]) = 0
           /\ views[result.view].path_list = <<>>
           /\ views[result.view].bboxes = <<>>
    /\ (result.op = "len" /\ ~index_files[Canon(CalledView.split)].present) =>
           result.value = 0

C5_Witness ==
    /\ result.op = "len"
    /\ CalledView.split = "val"
    /\ ~index_files.val.present
    /\ index_files.train.present
    /\ train_info.records # <<>>
    /\ test_info = EmptyDict
    /\ result.value = 0

----------------------------------------------------------------------------
(* C6 *)

\* C6: for every valid index i (inside the length, the path list and the box
\* lists, with a readable lidar file and a list of raw boxes at i),
\* get_data(i) returns a sample with one Object3d per raw box of the i-th
\* box list, in order, carrying the box's name, occlusion, quaternion and
\* corners, and with feat and calib absent.
C6_ValidIndexGivesSample ==
    (/\ result.op = "get_data"
     /\ result.idx >= 0
     /\ result.idx < SplitLen(CalledView)
     /\ result.idx < Len(CalledView.path_list)
     /\ result.idx < Len(CalledView.bboxes)
     /\ CalledView.path_list[result.idx + 1] \in LidarFiles
     /\ CalledView.bboxes[result.idx + 1].kind = "list") =>
        /\ result.status = "ok"
        /\ LET raw == CalledView.bboxes[result.idx + 1].boxes
               objs == result.value.bounding_boxes
           IN /\ Len(objs) = Len(raw)
              /\ \A j \in 1..Len(raw) :
                    /\ objs[j].name = raw[j].label_class
                    /\ objs[j].occlusion = raw[j].occlusion
                    /\ objs[j].quaternion = raw[j].quaternion
                    /\ objs[j].coords_3d = raw[j].coord3d
                    /\ objs[j].coords_2d = raw[j].coord2d
        /\ result.value.feat = None
        /\ result.value.calib = None

----------------------------------------------------------------------------
(* C7 *)

\* C7: cls_type_to_id inverts the id-to-name table (the id of the name of
\* id is id, for each of the 16 ids), maps every other name to 0 without
\* failing, and so every decoded Object3d has a class id in 0..15 that is
\* the table's id of its name, or 0.
C7_LabelTablesAgree ==
    /\ result.op = "cls_type_to_id" =>
           /\ result.status = "ok"
           /\ \A id \in 0..15 :
                  get_label_to_names[id] = result.name => result.value = id
           /\ (\A id \in 0..15 : get_label_to_names[id] # result.name) =>
                  result.value = 0
    /\ constructed => label_to_names[1] = "VEHICLE"
    /\ (result.op = "get_data" /\ result.status = "ok") =>
           \A j \in 1..Len(result.value.bounding_boxes) :
               LET obj == result.value.bounding_boxes[j]
               IN /\ obj.cls_id \in 0..15
                  /\ obj.label_class = obj.cls_id
                  /\ \/ get_label_to_names[obj.cls_id] = obj.name
                     \/ obj.cls_id = 0

C7_Witness ==
    /\ result.op = "cls_type_to_id"
    /\ result.name = get_label_to_names[15]
    /\ result.value = 15
    /\ constructed

----------------------------------------------------------------------------
(* C8 *)

\* C8: once the catalog is constructed, no call changes its three indices
\* or any existing view (split, length, path list, box lists); repeating the
\* get_data or get_attr call just made gives the same result; and a get_data
\* call leaves either a complete sample or, on failure, nothing.
C8_Step ==
    constructed =>
        /\ UNCHANGED <<train_info, test_info, val_info, index_files>>
        /\ \A v \in DOMAIN views : v \in DOMAIN views' /\ views'[v] = views[v]
        /\ (/\ result.op \in {"get_data", "get_attr"}
            /\ result'.op = result.op
            /\ result'.view = result.view
            /\ result'.idx = result.idx) => result' = result
        /\ result'.op = "get_data" =>
               IF result'.status = "ok"
               THEN DOMAIN result'.value = {"point", "feat", "calib", "bounding_boxes"}
               ELSE result'.value = None

C8_CallsChangeNothing == [][C8_Step]_vars

C8_Witness ==
    /\ Len(views) = 2
    /\ result.op = "get_data"
    /\ result.view = 1
    /\ result.status = "ok"
    /\ Len(result.value.bounding_boxes) = 2

----------------------------------------------------------------------------
(* C9 *)

\* A record as the claim describes it: one lidar_path string and one ordered
\* list of raw boxes.
ClaimShaped(r) ==
    /\ r.lidar_path.kind = "str"
    /\ \A j \in 1..Len(r.bbox) : r.bbox[j].kind = "dict"

\* C9 (as stated): a view built from N records, each with one lidar_path
\* string and one box list, has a path list and box lists of length N, the
\* i-th path being the i-th record's lidar_path.
C9_OneEntryPerRecord ==
    \A v \in DOMAIN views :
        LET infos == RecordsOf(views[v])
        IN (\A k \in 1..Len(infos) : ClaimShaped(infos[k])) =>
               /\ Len(views[v].path_list) = Len(infos)
               /\ Len(views[v].bboxes) = Len(infos)
               /\ \A k \in 1..Len(infos) :
                      views[v].path_list[k] = infos[k].lidar_path.chars

\* C9 (amended): a view built from records, each holding an ordered list of
\* lidar paths and an ordered list of box lists, has as its path list the
\* concatenation in record order of the records' lidar-path lists and as
\* its box lists the concatenation of the records' bbox lists (a lidar_path
\* that is one string contributes its characters one by one); the two have
\* the same length, element i of each coming from the same record, when
\* every record holds as many lidar paths as box lists.
C9_FlattenedInRecordOrder ==
    \A v \in DOMAIN views :
        LET infos == RecordsOf(views[v])
            N == Len(infos)
        IN /\ Len(views[v].path_list) = PathsBefore(infos, N + 1)
           /\ Len(views[v].bboxes) = BoxesBefore(infos, N + 1)
           /\ \A k \in 1..N :
                  /\ \A j \in 1..PathCount(infos[k]) :
                         views[v].path_list[PathsBefore(infos, k) + j] = PathAt(infos[k], j)
                  /\ \A j \in 1..Len(infos[k].bbox) :
                         views[v].bboxes[BoxesBefore(infos, k) + j] = infos[k].bbox[j]
           /\ (\A k \in 1..N : PathCount(infos[k]) = Len(infos[k].bbox)) =>
                  Len(views[v].path_list) = Len(views[v].bboxes)

C9_Witness ==
    \E v \in DOMAIN views :
        LET infos == RecordsOf(views[v])
        IN /\ Len(infos) = 2
           /\ PathCount(infos[1]) = 2
           /\ Len(views[v].path_list) = 3
           /\ Len(views[v].bboxes) = 3
           /\ views[v].path_list[3] = PathB

----------------------------------------------------------------------------
(* C10 *)

\* The raw boxes whose first two 2D corners have the same y.
FlatBox(box) == box.coord2d[1][2] = box.coord2d[2][2]

\* C10: decoding a box list that holds a box whose first two 2D corners have
\* equal y does not abort, and every Object3d it yields has a defined
\* heading (not NaN).
C10_FlatBoxHasHeading ==
    (/\ result.op = "get_data"
     /\ InRange(CalledView.path_list, result.idx)
     /\ InRange(CalledView.bboxes, result.idx)
     /\ PyIndex(CalledView.path_list, result.idx) \in LidarFiles
     /\ PyIndex(CalledView.bboxes, result.idx).kind = "list"
     /\ \E j \in 1..Len(PyIndex(CalledView.bboxes, result.idx).boxes) :
            FlatBox(PyIndex(CalledView.bboxes, result.idx).boxes[j])) =>
        /\ result.status = "ok"
        /\ \A j \in 1..Len(result.value.bounding_boxes) :
               ~IsNaN(result.value.bounding_boxes[j].front.x.of)

====
